---- MODULE Spec2Model ----
(***************************************************************************)
(* Model of scripts/plot_ious_analysis.py: one run of main().              *)
(*                                                                         *)
(* Encodings.                                                              *)
(*  - A name (file stem, directory name, click-mode, dataset substring,    *)
(*    checkpoint prefix) is a sequence of symbols; a symbol is a natural   *)
(*    number and symbols are ordered as numbers.  'a in b' is contiguous   *)
(*    subsequence, glob 'p*' is the prefix test.                           *)
(*  - A path is a sequence of names (pathlib compares paths part by part). *)
(*    All paths are relative to cfg.EXPS_PATH/evaluation_logs; a container *)
(*    file is <<directory name, Plots, stem>> (the suffix .pickle is       *)
(*    implicit).                                                           *)
(*  - An optional value (None or a value) is the empty set or a singleton. *)
(*  - A real number is a numerator over a denominator kept alongside.      *)
(***************************************************************************)
EXTENDS Integers, Sequences, FiniteSets, TLC

VARIABLES args, fs, plots_dir, pc, err, files_list, opened, file_i,
          aggregated_plot_data, ds_i, saved

vars == <<args, fs, plots_dir, pc, err, files_list, opened, file_i,
          aggregated_plot_data, ds_i, saved>>

\* ------------------------------------------------------------------ bounds
MaxLen == 3
MaxImages == 2
IoUDen == 1
MaxCap == 3
MaxArgs == 3

\* -------------------------------------------------------------- optionals
None == {}

Some(v) == {v}

Val(o) == CHOOSE v \in o : TRUE

\* ------------------------------------------------------- names and paths
Min(a, b) == IF a <= b THEN a ELSE b

Max(a, b) == IF a >= b THEN a ELSE b

IsPrefix(p, s) == Len(p) <= Len(s) /\ SubSeq(s, 1, Len(p)) = p

Contains(sub, s) ==
    \E i \in 0..(Len(s) - Len(sub)) : SubSeq(s, i + 1, i + Len(sub)) = sub

\* str.__lt__ : lexicographic order of two names
NameLess(a, b) ==
    \E k \in 1..(Min(Len(a), Len(b)) + 1) :
        /\ SubSeq(a, 1, k - 1) = SubSeq(b, 1, k - 1)
        /\ \/ k > Len(a) /\ k <= Len(b)
           \/ k <= Len(a) /\ k <= Len(b) /\ a[k] < b[k]

\* PurePath.__lt__ : lexicographic order of the two lists of parts
PathLess(p, q) ==
    \E k \in 1..(Min(Len(p), Len(q)) + 1) :
        /\ SubSeq(p, 1, k - 1) = SubSeq(q, 1, k - 1)
        /\ \/ k > Len(p) /\ k <= Len(q)
           \/ k <= Len(p) /\ k <= Len(q) /\ NameLess(p[k], q[k])

RECURSIVE InsertSorted(_, _)
InsertSorted(p, s) ==
    IF s = <<>> THEN <<p>>
    ELSE IF PathLess(p, Head(s)) THEN <<p>> \o s
    ELSE <<Head(s)>> \o InsertSorted(p, Tail(s))

\* a list left in the order it was built
SortPaths_unsorted(s) == s

\* list.sort() / sorted() on a list of paths
RECURSIVE SortPaths(_)
SortPaths(s) ==
    IF s = <<>> THEN <<>>
    ELSE InsertSorted(Head(s), SortPaths(Tail(s)))

RECURSIVE SetToSeq(_)
SetToSeq(S) ==
    IF S = {} THEN <<>>
    ELSE LET x == CHOOSE y \in S : TRUE IN <<x>> \o SetToSeq(S \ {x})

Range(s) == {s[i] : i \in 1..Len(s)}

\* Path.stem of a container path: its last part without the suffix
Stem(p) == p[Len(p)]

\* the fixed subdirectory name 'plots'
Plots == <<20>>

\* the ':' of an --exp-models entry
Colon == 0

\* Path(folder).glob('*.pickle'): the container files directly under folder.
\* The directory order of glob is unspecified; every use is sorted afterwards.
GlobPickles(files, folder) ==
    SetToSeq({p \in files : Len(p) = Len(folder) + 1
                            /\ SubSeq(p, 1, Len(folder)) = folder})

\* the ',' of --datasets
Comma == 10

\* str.split(sep)
RECURSIVE Split(_, _)
Split(s, sep) ==
    IF \A i \in 1..Len(s) : s[i] # sep THEN <<s>>
    ELSE LET i == CHOOSE j \in 1..Len(s) :
                      s[j] = sep /\ \A k \in 1..(j - 1) : s[k] # sep
         IN <<SubSeq(s, 1, i - 1)>> \o Split(SubSeq(s, i + 1, Len(s)), sep)

\* ------------------------------------------------------- get_files_list
\* an assertion that only rejects the empty match
AssertOneCandidate_any(candidates) == Cardinality(candidates) >= 1

\* line 203: assert len(candidates) == 1
AssertOneCandidate(candidates) == Cardinality(candidates) = 1

\* lines 199-205: the loop over args.exp_models; acc is files_list so far
RECURSIVE exp_models_loop(_, _, _)
exp_models_loop(files, entries, acc) ==
    IF entries = <<>> THEN [err |-> "", files |-> acc]
    ELSE LET parts == Split(Head(entries), Colon) IN
         IF Len(parts) # 2 THEN [err |-> "ValueError", files |-> <<>>]
         ELSE LET rel_exp_path == parts[1]
                  checkpoint_prefix == parts[2]
                  candidates == {d \in {p[1] : p \in files} :
                                    IsPrefix(rel_exp_path, d)}
              IN IF ~AssertOneCandidate(candidates)
                 THEN [err |-> "AssertionError", files |-> <<>>]
                 ELSE LET exp_path == CHOOSE d \in candidates : TRUE
                          found == {p \in files :
                                      /\ Len(p) = 3
                                      /\ p[1] = exp_path
                                      /\ p[2] = Plots
                                      /\ IsPrefix(checkpoint_prefix, Stem(p))}
                      IN exp_models_loop(files, Tail(entries),
                                         acc \o SortPaths(SetToSeq(found)))

\* lines 192-195: the loop over args.model_dirs
RECURSIVE model_dirs_loop(_, _)
model_dirs_loop(files, folders) ==
    IF folders = <<>> THEN <<>>
    ELSE GlobPickles(files, Append(Head(folders), Plots))
         \o model_dirs_loop(files, Tail(folders))

\* candidate_files with files_list bound to an empty list before the chain
candidate_files_bound(a, files) ==
    IF a.folder # None
    THEN [err |-> "", files |-> Some(GlobPickles(files, Val(a.folder)))]
    ELSE IF a.files # None
    THEN [err |-> "", files |-> Some(Val(a.files))]
    ELSE IF a.model_dirs # None
    THEN [err |-> "", files |-> Some(model_dirs_loop(files, Val(a.model_dirs)))]
    ELSE IF a.exp_models # None
    THEN LET r == exp_models_loop(files, Val(a.exp_models), <<>>)
         IN [err |-> r.err, files |-> IF r.err = "" THEN Some(r.files) ELSE None]
    ELSE [err |-> "", files |-> Some(<<>>)]

\* lines 183-205: the candidate list of the selected source; files is None
\* when no branch of the if/elif chain binds files_list
candidate_files(a, files) ==
    IF a.folder # None
    THEN [err |-> "", files |-> Some(GlobPickles(files, Val(a.folder)))]
    ELSE IF a.files # None
    THEN [err |-> "", files |-> Some(Val(a.files))]
    ELSE IF a.model_dirs # None
    THEN [err |-> "", files |-> Some(model_dirs_loop(files, Val(a.model_dirs)))]
    ELSE IF a.exp_models # None
    THEN LET r == exp_models_loop(files, Val(a.exp_models), <<>>)
         IN [err |-> r.err, files |-> IF r.err = "" THEN Some(r.files) ELSE None]
    ELSE [err |-> "", files |-> None]

\* lines 207-209: the click-mode filter
mode_filter(a, fl) ==
    IF a.mode # None
    THEN LET keep(file) == \E mode \in Range(Val(a.mode)) : Contains(mode, Stem(file))
         IN SelectSeq(fl, keep)
    ELSE fl

\* lines 210-211: the dataset filter; args.datasets was split at line 54
datasets_filter(a, fl) ==
    LET keep(file) == \E dataset \in Range(Split(a.datasets, Comma)) :
                          Contains(dataset, Stem(file))
    IN SelectSeq(fl, keep)

\* lines 181-215
get_files_list(a, files) ==
    LET c == candidate_files(a, files) IN
    IF c.err # "" THEN [err |-> c.err, files |-> <<>>]
    ELSE IF c.files = None THEN [err |-> "UnboundLocalError", files |-> <<>>]
    ELSE [err |-> "",
          files |-> SortPaths(datasets_filter(a, mode_filter(a, Val(c.files))))]

\* ------------------------------------------------------------ aggregator
\* Python's x[:n] for any integer n
SliceTo(x, n) ==
    SubSeq(x, 1, IF n >= 0 THEN Min(n, Len(x)) ELSE Max(Len(x) + n, 0))

\* line 117: x[:] if args.n_clicks == -1 else x[:args.n_clicks]
truncate_ious(x, n_clicks) == IF n_clicks = -1 THEN x ELSE SliceTo(x, n_clicks)

RECURSIVE SumColumn(_, _)
SumColumn(rows, i) ==
    IF rows = <<>> THEN 0 ELSE Head(rows)[i] + SumColumn(Tail(rows), i)

\* line 118: np.array(all_ious).mean(0) of equally long rows whose entries
\* are multiples of 1/IoUDen: the i-th mean is num[i] / den
mean0(all_ious) ==
    [num |-> [i \in 1..Len(all_ious[1]) |-> SumColumn(all_ious, i)],
     den |-> Len(all_ious) * IoUDen]

\* index of the entry of an insertion-ordered dict with the given key, or 0
KeyIndex(d, key) ==
    IF \E i \in 1..Len(d) : d[i].key = key
    THEN CHOOSE i \in 1..Len(d) : d[i].key = key
    ELSE 0

\* an assignment that keeps the value of a key already present
DictSet_keep_first(d, key, value) ==
    IF KeyIndex(d, key) = 0 THEN Append(d, [key |-> key, value |-> value]) ELSE d

\* d[key] = value on an insertion-ordered dict
DictSet(d, key, value) ==
    IF KeyIndex(d, key) = 0
    THEN Append(d, [key |-> key, value |-> value])
    ELSE [d EXCEPT ![KeyIndex(d, key)].value = value]

DictGet(d, key) == d[KeyIndex(d, key)].value

\* lines 116-118 for one deserialized container
aggregate(agg, data, n_clicks) ==
    LET all_ious == [j \in 1..Len(data.all_ious) |->
                        truncate_ious(data.all_ious[j], n_clicks)]
        inner == IF KeyIndex(agg, data.dataset_name) = 0 THEN <<>>
                 ELSE DictGet(agg, data.dataset_name)
    IN DictSet(agg, data.dataset_name,
               DictSet(inner, data.model_name, mean0(all_ious)))

\* ------------------------------------------------- metric/label stage
\* lines 65-79
model_name_mapper ==
    [m \in {"SimpleClick(ViT-B)_NoBRS", "MFP_SimpleClick_V8_NoBRS",
            "GPCIS-ResNet50_Baseline", "RITM-HRNet18_NoBRS",
            "CDNet-HRNet18_CDNet", "cocolvis_vitl_epoch_54_NoBRS",
            "cocolvis_vith_epoch_52_NoBRS", "052_NoBRS",
            "sbd_h18_itermask_NoBRS", "coco_lvis_h32_itermask_NoBRS",
            "cocolvis_segformer_b3_s2_FocalClick",
            "cocolvis_segformer_b0_s2_FocalClick",
            "sbd_cdnet_resnet34_CDNet", "cocolvis_cdnet_resnet34_CDNet"} |->
        CASE m = "SimpleClick(ViT-B)_NoBRS" -> "SimpleClick-ViT-B (SBD)"
          [] m = "MFP_SimpleClick_V8_NoBRS" -> "Ours-ViT-B (SBD)"
          [] m = "GPCIS-ResNet50_Baseline" -> "GPCIS-ResNet34 (SBD)"
          [] m = "RITM-HRNet18_NoBRS" -> "RITM-HRNet18 (SBD)"
          [] m = "CDNet-HRNet18_CDNet" -> "CDNet-ResNet34 (SBD)"
          [] m = "cocolvis_vitl_epoch_54_NoBRS" -> "Ours-ViT-L (C+L)"
          [] m = "cocolvis_vith_epoch_52_NoBRS" -> "Ours-ViT-H (C+L)"
          [] m = "052_NoBRS" -> "Ours-ViT-H (C+L)"
          [] m = "sbd_h18_itermask_NoBRS" -> "RITM-HRNet18 (SBD)"
          [] m = "coco_lvis_h32_itermask_NoBRS" -> "RITM-HRNet32 (C+L)"
          [] m = "cocolvis_segformer_b3_s2_FocalClick" -> "FocalClick-SegF-B3 (C+L)"
          [] m = "cocolvis_segformer_b0_s2_FocalClick" -> "FocalClick-SegF-B0 (C+L)"
          [] m = "sbd_cdnet_resnet34_CDNet" -> "CDNet-ResNet-34 (SBD)"
          [] m = "cocolvis_cdnet_resnet34_CDNet" -> "CDNet-ResNet-34 (C+L)"]

\* lines 96-105: the keys of range_mapper
range_mapper_keys ==
    {"SBD", "DAVIS", "Pascal VOC", "COCO_MVal", "BraTS", "OAIZIB", "ssTEM",
     "GrabCut", "Berkeley"}

\* twice the trapezoidal area of y over x = 1..Len(y):
\* metrics.auc(x, y) = Trapz2(y) / 2 for x = 1 + arange(n)
RECURSIVE Trapz2(_)
Trapz2(y) ==
    IF Len(y) < 2 THEN 0
    ELSE (y[1] + y[2]) + Trapz2(Tail(y))

\* lines 126-128: the sequence the metric stage works on
metric_sequence(model_results, n_clicks) ==
    LET cut == IF n_clicks # -1 THEN SliceTo(model_results.num, n_clicks)
               ELSE model_results.num
    IN [num |-> [i \in 1..Len(cut) |-> cut[i] * 100], den |-> model_results.den]

\* lines 146-149: auc / total_area, as a fraction, for n_clicks >= 2
auc_normalized(y) ==
    [num |-> Trapz2(y.num),
     den |-> y.den * Trapz2([i \in 1..Len(y.num) |-> 1])]

\* lines 125-151 for one model: the plotted curve or the exception raised
plot_model(model_name, model_results, n_clicks) ==
    LET y == metric_sequence(model_results, n_clicks) IN
    IF Len(y.num) = 0
    THEN [err |-> "ValueError"]               \* line 130: min() of an empty sequence
    ELSE IF Len(y.num) < 2
    THEN [err |-> "ValueError"]               \* line 147: auc needs 2 points
    ELSE [err |-> "",
          label |-> IF model_name \in DOMAIN model_name_mapper
                    THEN model_name_mapper[model_name] ELSE model_name,
          curve |-> y,
          auc |-> auc_normalized(y)]

\* lines 125-151: all models of one dataset, in dict order
RECURSIVE plot_models(_, _)
plot_models(dataset_results, n_clicks) ==
    IF dataset_results = <<>> THEN [err |-> "", curves |-> <<>>]
    ELSE LET c == plot_model(Head(dataset_results).key,
                             Head(dataset_results).value, n_clicks)
         IN IF c.err # "" THEN [err |-> c.err, curves |-> <<>>]
            ELSE LET rest == plot_models(Tail(dataset_results), n_clicks)
                 IN IF rest.err # "" THEN rest
                    ELSE [err |-> "", curves |-> <<c>> \o rest.curves]

\* lines 153-154
display_name(dataset_name) ==
    IF dataset_name = "PascalVOC" THEN "Pascal VOC" ELSE dataset_name

\* ------------------------------------------------ get_target_file_path
\* A figure file '<D>_<rest>.png' is [ds |-> D, rest |-> characters]; the
\* characters '0'..'9' are 0..9, and '_' and a letter follow in ASCII order.
\* Every modelled character is above '.', so names order as their rests do.
Underscore == 10

Letter == 11

\* str.split('_')[-1]
LastSegment(rest) ==
    IF \A i \in 1..Len(rest) : rest[i] # Underscore THEN rest
    ELSE LET i == CHOOSE j \in 1..Len(rest) :
                      rest[j] = Underscore
                      /\ \A k \in (j + 1)..Len(rest) : rest[k] # Underscore
         IN SubSeq(rest, i + 1, Len(rest))

IsNumeric(seg) == seg # <<>> /\ \A i \in 1..Len(seg) : seg[i] \in 0..9

\* int(seg) for a numeric seg
RECURSIVE IntOf(_)
IntOf(seg) ==
    IF seg = <<>> THEN 0
    ELSE IntOf(SubSeq(seg, 1, Len(seg) - 1)) * 10 + seg[Len(seg)]

RECURSIVE Digits(_)
Digits(n) == IF n < 10 THEN <<n>> ELSE Digits(n \div 10) \o <<n % 10>>

\* f'{index:03d}'
Format03d(index) ==
    LET d == Digits(index)
    IN [i \in 1..(3 - Len(d)) |-> 0] \o d

\* sorted(previous_plots)[-1]
LastSorted(previous_plots) ==
    CHOOSE f \in previous_plots :
        \A g \in previous_plots : g = f \/ NameLess(g.rest, f.rest)

\* lines 171-178
get_target_file_path(plots_path, dataset_name) ==
    LET previous_plots == {f \in plots_path : f.ds = dataset_name} IN
    IF previous_plots = {}
    THEN [err |-> "", path |-> [ds |-> dataset_name, rest |-> Format03d(0)]]
    ELSE LET seg == LastSegment(LastSorted(previous_plots).rest) IN
         IF ~IsNumeric(seg) THEN [err |-> "ValueError"]
         ELSE [err |-> "",
               path |-> [ds |-> dataset_name, rest |-> Format03d(IntOf(seg) + 1)]]

\* a render that falls back to default ticks for an unlisted dataset
render_raised_no_lookup(plotted_err, title, fig_err) ==
    IF plotted_err # "" THEN plotted_err
    ELSE IF title \notin range_mapper_keys THEN ""
    ELSE fig_err

\* lines 125-167: the first exception one iteration of the render loop
\* raises before savefig, or "" when it reaches savefig
render_raised(plotted_err, title, fig_err) ==
    IF plotted_err # "" THEN plotted_err
    ELSE IF title \notin range_mapper_keys THEN "KeyError"
    ELSE fig_err

\* ------------------------------------------------------------- inputs
\* click-mode names (the choices of --mode, lines 34-35) and dataset substrings
NoBRS == <<11>>

FBRSB == <<12>>

GrabCut == <<7>>

Berkeley == <<8>>

SBD == <<9>>

\* the container files on disk: two experiment directories whose names
\* share a prefix (<<1>> and <<1, 2>>) and a third one
F1 == <<<<1, 2>>, Plots, <<5, 7, 11>>>>

F2 == <<<<1, 2>>, Plots, <<5, 6, 7, 11>>>>

F3 == <<<<1, 2>>, Plots, <<5, 8, 12>>>>

F4 == <<<<3>>, Plots, <<5, 7, 12>>>>

F5 == <<<<3>>, Plots, <<5, 9, 11>>>>

F6 == <<<<1>>, Plots, <<4, 7>>>>

Missing == <<<<3>>, Plots, <<6, 7, 11>>>>

ContainerFiles == {F1, F2, F3, F4, F5, F6}

Ones(n, len) == [j \in 1..n |-> [i \in 1..len |-> IoUDen]]

DefaultContainer(p) ==
    [dataset_name |-> IF Contains(GrabCut, Stem(p)) THEN "GrabCut"
                      ELSE IF Contains(Berkeley, Stem(p)) THEN "Berkeley"
                      ELSE "SBD",
     model_name |-> IF p[1] = <<3>> THEN "sbd_h18_itermask_NoBRS"
                    ELSE IF Contains(NoBRS, Stem(p)) THEN "052_NoBRS"
                    ELSE "my_model",
     all_ious |-> Ones(1, 2)]

DefaultFS == [p \in ContainerFiles |-> DefaultContainer(p)]

SeqsUpTo(S, n) == UNION {[1..k -> S] : k \in 1..n}

NoSource == [folder |-> None, files |-> None, model_dirs |-> None, exp_models |-> None]

Sources ==
    {NoSource}
    \cup {[NoSource EXCEPT !.folder = Some(d)] :
              d \in {<<<<1, 2>>, Plots>>, <<<<3>>, Plots>>}}
    \cup {[NoSource EXCEPT !.files = Some(l)] :
              l \in SeqsUpTo({F1, F2, F4, Missing}, MaxArgs)}
    \cup {[NoSource EXCEPT !.model_dirs = Some(l)] :
              l \in SeqsUpTo({<<<<1, 2>>>>, <<<<3>>>>, <<<<1>>>>}, MaxArgs)}
    \cup {[NoSource EXCEPT !.exp_models = Some(l)] :
              l \in SeqsUpTo({<<1, Colon, 5>>, <<1, 2, Colon, 5>>,
                              <<1, 2, Colon, 5, 6>>, <<3, Colon, 5>>,
                              <<4, Colon, 5>>, <<1, 2>>}, MaxArgs)}

Args(src, mode, datasets, n_clicks) ==
    [folder |-> src.folder, files |-> src.files, model_dirs |-> src.model_dirs,
     exp_models |-> src.exp_models, mode |-> mode, datasets |-> datasets,
     n_clicks |-> n_clicks]

Caps == (0 - MaxCap)..MaxCap

Matrices ==
    UNION {[1..n -> [1..len -> 0..IoUDen]] : n \in 1..MaxImages, len \in 1..MaxLen}

DatasetNames == {"GrabCut", "PascalVOC", "Pascal VOC", "Unlisted"}

Ramp(len) == <<[i \in 1..len |-> IF i = 1 THEN 0 ELSE IoUDen]>>

KeyContainers ==
    [dataset_name : DatasetNames,
     model_name : {"052_NoBRS", "my_model"},
     all_ious : {Ones(1, 1), Ones(MaxImages, 2), Ramp(MaxLen)}]

PngChoices ==
    [ds : {"GrabCut", "Pascal VOC"},
     rest : {<<0, 0, 0>>, <<9, 9, 9>>, <<1, 0, 0, 0>>,
             <<Letter, Underscore, 0, 0, 5>>, <<Letter>>}]

InitRun ==
    /\ pc = "start"
    /\ err = ""
    /\ files_list = <<>>
    /\ opened = <<>>
    /\ file_i = 1
    /\ aggregated_plot_data = <<>>
    /\ ds_i = 1
    /\ saved = <<>>

\* every source and filter combination over a fixed disk
InitResolve ==
    /\ args \in {Args(src, mode, datasets, 0 - 1) :
                    src \in Sources,
                    mode \in {None, Some(<<>>), Some(<<NoBRS>>), Some(<<FBRSB, NoBRS>>)},
                    datasets \in {GrabCut, GrabCut \o <<Comma>> \o Berkeley, SBD}}
    /\ fs = DefaultFS
    /\ plots_dir = {}
    /\ InitRun

\* one container of every shape under every click cap
InitNumeric ==
    /\ args \in {Args([NoSource EXCEPT !.files = Some(<<F1>>)], None, GrabCut, n) :
                    n \in Caps}
    /\ \E m \in Matrices :
           fs = [DefaultFS EXCEPT
                    ![F1] = [dataset_name |-> "GrabCut", model_name |-> "052_NoBRS",
                             all_ious |-> m]]
    /\ plots_dir = {}
    /\ InitRun

\* two containers with every combination of keys, and a third one
InitKeys ==
    /\ args \in {Args([NoSource EXCEPT !.files = Some(l)], None,
                       GrabCut \o <<Comma>> \o Berkeley, n) :
                    l \in {<<F1, F2>>, <<F3, F1, F2>>}, n \in {0 - 1, 1, 2}}
    /\ \E c1 \in KeyContainers, c2 \in KeyContainers :
           fs = [DefaultFS EXCEPT ![F1] = c1, ![F2] = c2]
    /\ plots_dir = {}
    /\ InitRun

\* every content of the output directory
InitPlots ==
    /\ args = Args([NoSource EXCEPT !.files = Some(<<F1, F2>>)], None, GrabCut, 0 - 1)
    /\ \E d1 \in DatasetNames, d2 \in DatasetNames :
           fs = [DefaultFS EXCEPT
                    ![F1] = [dataset_name |-> d1, model_name |-> "052_NoBRS",
                             all_ious |-> Ones(1, 2)],
                    ![F2] = [dataset_name |-> d2, model_name |-> "my_model",
                             all_ious |-> Ones(1, 2)]]
    /\ plots_dir \in SUBSET PngChoices
    /\ InitRun

Init == InitResolve \/ InitNumeric \/ InitKeys \/ InitPlots

\* -------------------------------------------------------------- actions
\* line 110: files_list = get_files_list(args, cfg)
ResolveFiles ==
    /\ pc = "start"
    /\ LET r == get_files_list(args, DOMAIN fs) IN
       /\ files_list' = r.files
       /\ err' = r.err
       /\ pc' = IF r.err = "" THEN "running" ELSE "failed"
    /\ UNCHANGED <<args, fs, plots_dir, opened, file_i, aggregated_plot_data,
                   ds_i, saved>>

\* lines 114-118: one iteration of the loop over files_list
LoadFile ==
    /\ pc = "running"
    /\ file_i <= Len(files_list)
    /\ LET file == files_list[file_i] IN
       IF file \notin DOMAIN fs
       THEN /\ pc' = "failed"
            /\ err' = "FileNotFoundError"
            /\ UNCHANGED <<opened, file_i, aggregated_plot_data>>
       ELSE /\ opened' = Append(opened, file)
            /\ aggregated_plot_data' =
                   aggregate(aggregated_plot_data, fs[file], args.n_clicks)
            /\ file_i' = file_i + 1
            /\ UNCHANGED <<pc, err>>
    /\ UNCHANGED <<args, fs, plots_dir, files_list, ds_i, saved>>

\* lines 120-168: one iteration of the loop over aggregated_plot_data
RenderDataset ==
    /\ pc = "running"
    /\ file_i > Len(files_list)
    /\ ds_i <= Len(aggregated_plot_data)
    /\ LET dataset_name == aggregated_plot_data[ds_i].key
           plotted == plot_models(aggregated_plot_data[ds_i].value, args.n_clicks)
           title == display_name(dataset_name)
           fig_path == get_target_file_path(plots_dir, title)
           raised == render_raised(plotted.err, title, fig_path.err)
       IN IF raised # ""
          THEN /\ pc' = "failed"
               /\ err' = raised
               /\ UNCHANGED <<plots_dir, ds_i, saved>>
          ELSE /\ plots_dir' = plots_dir \cup {fig_path.path}
               /\ saved' = Append(saved, [dataset |-> dataset_name,
                                          fig_path |-> fig_path.path,
                                          curves |-> plotted.curves])
               /\ ds_i' = ds_i + 1
               /\ UNCHANGED <<pc, err>>
    /\ UNCHANGED <<args, fs, files_list, opened, file_i, aggregated_plot_data>>

\* main returns
Exit ==
    /\ pc = "running"
    /\ file_i > Len(files_list)
    /\ ds_i > Len(aggregated_plot_data)
    /\ pc' = "done"
    /\ UNCHANGED <<args, fs, plots_dir, err, files_list, opened, file_i,
                   aggregated_plot_data, ds_i, saved>>

Next == ResolveFiles \/ LoadFile \/ RenderDataset \/ Exit

Spec == Init /\ [][Next]_vars

\* ---------------------------------------------------------- properties
Count(p, s) == Cardinality({i \in 1..Len(s) : s[i] = p})

SortedPaths(s) == \A i \in 1..(Len(s) - 1) : ~PathLess(s[i + 1], s[i])

NoDuplicate(s) == \A i, j \in 1..Len(s) : i # j => s[i] # s[j]

\* the files loop has run to its end
AllLoaded == pc # "start" /\ file_i > Len(files_list)

Terminated == pc \in {"done", "failed"}

\* the figures '<D>_<digits>.png' of a directory, and their highest index
Figures(dir, D) == {f \in dir : f.ds = D}

HighestIndex(dir, D) ==
    CHOOSE n \in {IntOf(f.rest) : f \in Figures(dir, D)} :
        \A f \in Figures(dir, D) : IntOf(f.rest) <= n

\* C1: every figure write into a directory holding only '<D>_<digits>.png'
\* figures for D uses index 0 when there is none and the highest existing
\* index plus one otherwise, and never replaces an existing figure.
C1_NextIndexNeverOverwrites ==
    [][(saved' # saved) =>
          LET path == saved'[Len(saved')].fig_path
              D == path.ds
          IN (\A f \in Figures(plots_dir, D) : IsNumeric(f.rest)) =>
                /\ path \notin plots_dir
                /\ IntOf(path.rest) = IF Figures(plots_dir, D) = {} THEN 0
                                      ELSE HighestIndex(plots_dir, D) + 1]_vars

GivenFiles ==
    IF args.folder # None
    THEN {p \in DOMAIN fs : SubSeq(p, 1, 2) = Val(args.folder)}
    ELSE IF args.files # None THEN Range(Val(args.files))
    ELSE {}

ModeRequested == args.mode # None /\ Val(args.mode) # <<>>

\* C3: a candidate is kept exactly when (no click-mode is requested or its
\* name contains a requested click-mode) and its name contains a requested
\* dataset substring; --mode with zero values removes nothing.
C3_PostFilterKeeps ==
    pc = "running" =>
        \A p \in GivenFiles :
            p \in Range(files_list) <=>
                /\ ModeRequested =>
                      \E m \in Range(Val(args.mode)) : Contains(m, Stem(p))
                /\ \E d \in Range(Split(args.datasets, Comma)) : Contains(d, Stem(p))

\* the part of an --exp-models entry before ':' and the directories it globs
EntryPath(e) == SubSeq(e, 1, (CHOOSE i \in 1..Len(e) : e[i] = Colon) - 1)

EntryMatches(e) == {d \in {p[1] : p \in DOMAIN fs} : IsPrefix(EntryPath(e), d)}

WellFormedEntries ==
    /\ args.exp_models # None
    /\ \A i \in 1..Len(Val(args.exp_models)) :
          Count(Colon, Val(args.exp_models)[i]) = 1

BadEntry(i) == Cardinality(EntryMatches(Val(args.exp_models)[i])) # 1

\* C4: in experiment-models mode, when the glob of some PATH:PREFIX entry,
\* at any position, matches zero or several directories, the run fails with
\* the assertion and no container is ever opened nor any figure written.
C4_AssertBeforeAnyRead ==
    (WellFormedEntries /\ \E i \in 1..Len(Val(args.exp_models)) : BadEntry(i)) =>
        /\ pc \in {"start", "failed"}
        /\ pc = "failed" => err = "AssertionError"
        /\ opened = <<>>
        /\ saved = <<>>
        /\ plots_dir = {}

C4_Witness ==
    /\ WellFormedEntries
    /\ Len(Val(args.exp_models)) = 2
    /\ ~BadEntry(1)
    /\ BadEntry(2)
    /\ pc = "failed"
    /\ err = "AssertionError"

\* the last opened container that carries the pair of opened[i]
IsLastOfPair(i) ==
    \A j \in (i + 1)..Len(opened) :
        \/ fs[opened[j]].dataset_name # fs[opened[i]].dataset_name
        \/ fs[opened[j]].model_name # fs[opened[i]].model_name

Entry(dataset_name, model_name) ==
    DictGet(DictGet(aggregated_plot_data, dataset_name), model_name)

\* C5: the aggregated entry of a container is as long as its per-image
\* sequences when the cap is not positive, and min(that length, cap) when
\* the cap is positive.
C5_EntryLength ==
    \A i \in 1..Len(opened) :
        IsLastOfPair(i) =>
            LET data == fs[opened[i]]
                natural == Len(data.all_ious[1])
            IN Len(Entry(data.dataset_name, data.model_name).num) =
                   IF args.n_clicks > 0 THEN Min(natural, args.n_clicks)
                   ELSE natural

\* C6: the truncation of the metric stage leaves every aggregated entry as
\* long as the aggregator made it.
C6_SecondTruncationIdentity ==
    \A d \in 1..Len(aggregated_plot_data) :
        \A m \in 1..Len(aggregated_plot_data[d].value) :
            LET entry == aggregated_plot_data[d].value[m].value
            IN Len(metric_sequence(entry, args.n_clicks).num) = Len(entry.num)

\* C7: a plotted entry whose averaged IoU is 1.0 at each of its N >= 2
\* clicks has normalized AUC 1 in the legend.
C7_FlatOneHasUnitAuc ==
    \A i \in 1..Len(saved) :
        \A m \in 1..Len(saved[i].curves) :
            LET entry == DictGet(aggregated_plot_data, saved[i].dataset)[m].value
                auc == saved[i].curves[m].auc
            IN (Len(entry.num) >= 2
                /\ \A c \in 1..Len(entry.num) : entry.num[c] = entry.den)
               => auc.num = auc.den

\* the opened containers that carry a pair, and the greatest of them in
\* path order
Carriers(dataset_name, model_name) ==
    {p \in Range(opened) : /\ fs[p].dataset_name = dataset_name
                           /\ fs[p].model_name = model_name}

LastCarrier(dataset_name, model_name) ==
    CHOOSE p \in Carriers(dataset_name, model_name) :
        \A q \in Carriers(dataset_name, model_name) : q = p \/ PathLess(q, p)

\* the entry the aggregator computes from one container alone
EntryOf(data) ==
    DictGet(DictGet(aggregate(<<>>, data, args.n_clicks), data.dataset_name),
            data.model_name)

\* C8: once every resolved file is loaded, the entry stored for a pair is the
\* one computed from the greatest path, in path order, whose container
\* carries the pair, and every stored entry belongs to a loaded container.
C8_LastWriteWins ==
    AllLoaded =>
        /\ \A p \in Range(opened) :
              /\ KeyIndex(aggregated_plot_data, fs[p].dataset_name) # 0
              /\ KeyIndex(DictGet(aggregated_plot_data, fs[p].dataset_name),
                          fs[p].model_name) # 0
              /\ Entry(fs[p].dataset_name, fs[p].model_name) =
                     EntryOf(fs[LastCarrier(fs[p].dataset_name, fs[p].model_name)])
        /\ \A d \in 1..Len(aggregated_plot_data) :
              \A m \in 1..Len(aggregated_plot_data[d].value) :
                  Carriers(aggregated_plot_data[d].key,
                           aggregated_plot_data[d].value[m].key) # {}

C8_Witness ==
    /\ AllLoaded
    /\ \E p, q \in Range(opened) :
          /\ PathLess(p, q)
          /\ fs[p].dataset_name = fs[q].dataset_name
          /\ fs[p].model_name = fs[q].model_name
          /\ EntryOf(fs[p]) # EntryOf(fs[q])
    /\ Len(aggregated_plot_data) = 2

\* the k-th dataset is the first whose display name has no axis range
FirstAbsent(k) ==
    /\ k \in 1..Len(aggregated_plot_data)
    /\ display_name(aggregated_plot_data[k].key) \notin range_mapper_keys
    /\ \A j \in 1..(k - 1) :
          display_name(aggregated_plot_data[j].key) \in range_mapper_keys

WrittenUpTo(n) ==
    /\ Len(saved) = n
    /\ \A i \in 1..n : saved[i].dataset = aggregated_plot_data[i].key

\* the render of the j-th dataset reaches savefig
Renders(j) ==
    /\ plot_models(aggregated_plot_data[j].value, args.n_clicks).err = ""
    /\ get_target_file_path(plots_dir,
                            display_name(aggregated_plot_data[j].key)).err = ""

NoSourceGiven ==
    args.folder = None /\ args.files = None /\ args.model_dirs = None
    /\ args.exp_models = None

\* C10: with no input-source flag the run fails in get_files_list with the
\* unbound files_list, without a file list, an opened container or a figure.
C10_NoSourceFailsInResolver ==
    NoSourceGiven =>
        /\ pc \in {"start", "failed"}
        /\ pc = "failed" => err = "UnboundLocalError"
        /\ opened = <<>>
        /\ saved = <<>>
        /\ plots_dir = {}

C10_Witness == NoSourceGiven /\ pc = "failed" /\ err = "UnboundLocalError"

====
